---------------------------- MODULE Spec2Model ----------------------------
(***************************************************************************)
(* A model of the dnd5e item data models (EquipmentData, WeaponData,       *)
(* ToolData, ConsumableData) and of the player character sheet             *)
(* (ActorSheet5eCharacter).                                                *)
(*                                                                         *)
(*   SpecMigrate   migrateData of the three kinds that define migrations   *)
(*   SpecProf      the proficiencyMultiplier getters                       *)
(*   SpecChat      the chatProperties getters                              *)
(*   SpecPrepare   ActorSheet5eCharacter._prepareItems                     *)
(*   SpecClasses   _prepareItems on classes and subclasses                 *)
(*   SpecRender    getData and activateListeners                           *)
(*   SpecLevels    _onDropSingleItem and _onLevelChange                    *)
(*   SpecConfirm   the confirmations of level-down and currency conversion *)
(*   SpecRace      _onLevelChange on html rendered before other updates    *)
(***************************************************************************)
EXTENDS Integers, Sequences, FiniteSets, TLC

VARIABLES
    mkind,      \* migration: the item kind whose migrateData is applied
    source,     \* migration: the candidate source data, mutated in place
    hist,       \* migration: <<raw, after 1st migrateData, after 2nd, ...>>
    threw,      \* migration: the last migrateData call raised a TypeError
    pkind,      \* resolver: the item kind whose getter is read
    item,       \* resolver: the item's system data and labels
    actor,      \* resolver: the owning actor, or NoActor
    mult,       \* resolver: value read from proficiencyMultiplier, or NotRead
    props,      \* resolver: value read from chatProperties, or NotRead
    ctxItems,   \* sheet: context.items handed to _prepareItems
    filters,    \* sheet: this._filters (inventory, spellbook, features)
    view,       \* sheet: what _prepareItems assigned to the context, or NotRead
    resources,  \* actor: system.resources, resource id -> resource record
    currency,   \* actor: system.currency
    dom,        \* sheet: what activateListeners did to the rendered html
    pending,    \* sheet: _onLevelChange handlers awaiting the confirmation
    result,     \* sheet: the last handler run, its outcome, the state before
    handled     \* sheet: the events handled so far

vars == <<mkind, source, hist, threw, pkind, item, actor, mult, props,
          ctxItems, filters, view, resources, currency, dom, pending, result,
          handled>>

migVars == <<mkind, source, hist, threw>>
resVars == <<pkind, item, actor, mult, props>>
sheetVars == <<ctxItems, filters, view>>
actorVars == <<resources, currency, dom, pending, result, handled>>

(***************************************************************************)
(* Bounds of the model.                                                    *)
(***************************************************************************)
MaxRuns == 2        \* migrateData calls applied in a row to one record
MaxDepth == 2       \* nesting depth of array values of a raw field
MaxItems == 3       \* items handed to _prepareItems

(***************************************************************************)
(* JavaScript values.  Every value carries its typeof tag first, so two    *)
(* values of different types compare unequal.  Absent marks a key that an  *)
(* object does not have; reading it yields Undefined.                      *)
(***************************************************************************)
Absent == [t |-> "absent"]
Undefined == [t |-> "undefined"]
Null == [t |-> "null"]
Bool(b) == [t |-> "boolean", v |-> b]
Num(n) == [t |-> "number", v |-> n]
Str(s) == [t |-> "string", v |-> s]
Arr(a) == [t |-> "array", v |-> a]
Obj(f) == [t |-> "object", v |-> f]

NotRead == [t |-> "notread"]
NoActor == [t |-> "noactor"]

\* typeof value === "string" / "boolean"
IsString(x) == x.t = "string"
IsBoolean(x) == x.t = "boolean"

\* Array.isArray(value)
IsArray(x) == x.t = "array"

\* ToBoolean: the values that pass an if ( value ) test
Truthy(x) ==
    CASE x.t \in {"absent", "undefined", "null"} -> FALSE
      [] x.t = "boolean" -> x.v
      [] x.t = "number" -> x.v # 0
      [] x.t = "string" -> x.v # ""
      [] OTHER -> TRUE

\* obj[key]: a property read.  Primitives and arrays have none of the keys
\* the migrations read by name.
Get(x, key) ==
    IF x.t = "object" /\ key \in DOMAIN x.v /\ x.v[key] # Absent
    THEN x.v[key] ELSE Undefined

\* source.field: a read of a top-level field of the source data
Field(src, key) == IF src[key] = Absent THEN Undefined ELSE src[key]

\* The strings the model draws that JavaScript converts to a number, with
\* the number unary plus gives.  Every other string converts to NaN.
NumericStrings == {"2", "10", " "}
StrToNum(s) == CASE s = "2" -> 2 [] s = "10" -> 10 [] s = " " -> 0

\* Number.isNumeric(n): not an array, not null, not "", and +n === +n
IsNumeric(x) ==
    CASE x.t = "array" -> FALSE
      [] x.t = "null" -> FALSE
      [] x.t = "string" -> x.v # "" /\ x.v \in NumericStrings
      [] x.t = "number" -> TRUE
      [] x.t = "boolean" -> TRUE
      [] OTHER -> FALSE

\* Number(value) of a string that is numeric, or of a boolean
ToNumber(x) ==
    CASE x.t = "string" -> Num(StrToNum(x.v))
      [] x.t = "boolean" -> Num(IF x.v THEN 1 ELSE 0)
      [] OTHER -> x

(***************************************************************************)
(* Migration.  A step maps the source data to [src, threw]: the source as  *)
(* the step left it and whether it raised.  A step that raised ends        *)
(* migrateData: the steps after it do not run.                             *)
(***************************************************************************)
Done(src) == [src |-> src, threw |-> FALSE]
Raised(src) == [src |-> src, threw |-> TRUE]

\* SystemDataModel.migrateData: the migrations of the mixed-in templates,
\* which write none of the kind-specific fields modelled here.
SystemDataModel_migrateData(src) == Done(src)

\* ---- EquipmentData ----

EmptyArmor == [type |-> Absent, dex |-> Absent]

EquipmentData_migrateArmor(src) ==
    IF src.armor = Absent THEN Done(src)
    ELSE
      LET a0 == IF src.armor.t \in {"null", "undefined"}
                THEN Obj(EmptyArmor) ELSE src.armor
          a1 == IF Get(a0, "type") = Str("bonus")
                THEN Obj([a0.v EXCEPT !.type = Str("trinket")]) ELSE a0
          dex == Get(a1, "dex")
          a2 == IF IsString(dex)
                THEN IF dex = Str("") THEN Obj([a1.v EXCEPT !.dex = Null])
                     ELSE IF IsNumeric(dex)
                          THEN Obj([a1.v EXCEPT !.dex = ToNumber(dex)])
                          ELSE a1
                ELSE a1
      IN Done([src EXCEPT !.armor = a2])

EquipmentData_migrateStrength(src) ==
    IF ~IsString(Field(src, "strength")) THEN Done(src)
    ELSE
      LET s1 == IF src.strength = Str("")
                THEN [src EXCEPT !.strength = Null] ELSE src
          s2 == IF IsNumeric(s1.strength)
                THEN [s1 EXCEPT !.strength = ToNumber(s1.strength)] ELSE s1
      IN Done(s2)

EquipmentData_migrateProficient(src) ==
    IF IsBoolean(Field(src, "proficient"))
    THEN Done([src EXCEPT !.proficient = ToNumber(src.proficient)])
    ELSE Done(src)

EquipmentData_migrateData(src) ==
    LET r0 == SystemDataModel_migrateData(src)
        r1 == IF r0.threw THEN r0 ELSE EquipmentData_migrateArmor(r0.src)
        r2 == IF r1.threw THEN r1 ELSE EquipmentData_migrateStrength(r1.src)
    IN IF r2.threw THEN r2 ELSE EquipmentData_migrateProficient(r2.src)

\* ---- WeaponData ----

\* every falsy entry deleted, instead of every non-boolean one
WeaponData_migratePropertiesDataFalsy(src) ==
    LET p == Field(src, "properties") IN
    IF ~Truthy(p) THEN Done(src)
    ELSE IF p.t = "string" THEN Raised(src)
    ELSE IF p.t = "object"
         THEN Done([src EXCEPT !.properties =
                Obj([k \in DOMAIN p.v |->
                       IF ~Truthy(Get(p, k)) THEN Absent ELSE p.v[k]])])
         ELSE Done(src)

\* Object.entries(value) is empty for a number or a boolean, and lists the
\* characters of a string; a character of a string is not configurable, so
\* the delete raises a TypeError in strict code (a module is strict code).
WeaponData_migratePropertiesData(src) ==
    LET p == Field(src, "properties") IN
    IF ~Truthy(p) THEN Done(src)
    ELSE IF p.t = "string" THEN Raised(src)
    ELSE IF p.t = "object"
         THEN Done([src EXCEPT !.properties =
                Obj([k \in DOMAIN p.v |->
                       IF ~IsBoolean(p.v[k]) THEN Absent ELSE p.v[k]])])
         ELSE Done(src)

WeaponData_migrateProficient(src) ==
    IF IsBoolean(Field(src, "proficient"))
    THEN Done([src EXCEPT !.proficient = ToNumber(src.proficient)])
    ELSE Done(src)

WeaponData_migrateWeaponType(src) ==
    IF src.weaponType = Null
    THEN Done([src EXCEPT !.weaponType = Str("simpleM")])
    ELSE Done(src)

WeaponData_migrateData(src) ==
    LET r0 == SystemDataModel_migrateData(src)
        r1 == IF r0.threw THEN r0 ELSE WeaponData_migratePropertiesData(r0.src)
        r2 == IF r1.threw THEN r1 ELSE WeaponData_migrateProficient(r1.src)
    IN IF r2.threw THEN r2 ELSE WeaponData_migrateWeaponType(r2.src)

\* ---- ToolData ----

\* source.ability[0]: undefined for the empty array
ToolData_migrateAbility(src) ==
    IF IsArray(Field(src, "ability"))
    THEN Done([src EXCEPT !.ability =
                 IF src.ability.v = <<>> THEN Undefined ELSE src.ability.v[1]])
    ELSE Done(src)

ToolData_migrateData(src) ==
    LET r0 == SystemDataModel_migrateData(src)
    IN IF r0.threw THEN r0 ELSE ToolData_migrateAbility(r0.src)

(***************************************************************************)
(* Raw records: what a stored document of any vintage may hold.            *)
(***************************************************************************)
RawScalars == {Absent, Null, Num(2), Str(""), Str("2"), Str(" "), Str("abc")}
RawProficient == {Absent, Null, Bool(TRUE), Bool(FALSE), Num(0), Num(1)}

RawArmorObjects ==
    {Obj([type |-> ty, dex |-> d]) :
        ty \in {Absent, Str("bonus"), Str("light")}, d \in RawScalars}
RawArmor == {Absent, Null, Str("plate"), Num(14)} \cup RawArmorObjects

RawEquipment ==
    [armor : RawArmor, strength : RawScalars, proficient : RawProficient]

PropKeys == {"fin", "old"}
RawPropValues == {Absent, Bool(TRUE), Bool(FALSE), Str("legacy"), Null, Num(1)}
RawProperties ==
    {Absent, Null, Str(""), Str("legacy"), Num(5), Bool(TRUE)}
      \cup {Obj(f) : f \in [PropKeys -> RawPropValues]}

RawWeapon ==
    [properties : RawProperties, proficient : RawProficient,
     weaponType : {Absent, Null, Str("simpleM"), Str("martialR"), Num(3)}]

RECURSIVE RawAbility(_)
RawAbility(depth) ==
    LET scalars == {Absent, Null, Str(""), Str("str"), Str("dex"), Num(5)}
    IN IF depth = 0 THEN scalars
       ELSE LET inner == RawAbility(depth - 1) \ {Absent}
            IN scalars \cup RawAbility(depth - 1) \cup {Arr(<<>>)}
                 \cup {Arr(<<x>>) : x \in inner}
                 \cup {Arr(<<x, Str("wis")>>) : x \in inner}

RawTool == [ability : RawAbility(MaxDepth)]

RawRecords(kind) ==
    CASE kind = "equipment" -> RawEquipment
      [] kind = "weapon" -> RawWeapon
      [] kind = "tool" -> RawTool

MigrateInit ==
    /\ mkind \in {"equipment", "weapon", "tool"}
    /\ source \in RawRecords(mkind)
    /\ hist = <<source>>
    /\ threw = FALSE
    /\ pkind = "none" /\ item = Absent /\ actor = NoActor
    /\ mult = NotRead /\ props = NotRead
    /\ ctxItems = <<>> /\ filters = Absent /\ view = NotRead
    /\ resources = <<>> /\ currency = Absent /\ dom = NotRead
    /\ pending = {} /\ result = NotRead /\ handled = 0

\* EquipmentData.migrateData(source), on a record or on one already migrated
MigrateEquipment ==
    /\ mkind = "equipment"
    /\ ~threw
    /\ Len(hist) <= MaxRuns
    /\ LET r == EquipmentData_migrateData(source) IN
         /\ source' = r.src
         /\ threw' = r.threw
         /\ hist' = Append(hist, r.src)
    /\ UNCHANGED <<mkind, resVars, sheetVars, actorVars>>

\* WeaponData.migrateData(source)
MigrateWeapon ==
    /\ mkind = "weapon"
    /\ ~threw
    /\ Len(hist) <= MaxRuns
    /\ LET r == WeaponData_migrateData(source) IN
         /\ source' = r.src
         /\ threw' = r.threw
         /\ hist' = Append(hist, r.src)
    /\ UNCHANGED <<mkind, resVars, sheetVars, actorVars>>

\* ToolData.migrateData(source)
MigrateTool ==
    /\ mkind = "tool"
    /\ ~threw
    /\ Len(hist) <= MaxRuns
    /\ LET r == ToolData_migrateData(source) IN
         /\ source' = r.src
         /\ threw' = r.threw
         /\ hist' = Append(hist, r.src)
    /\ UNCHANGED <<mkind, resVars, sheetVars, actorVars>>

MigrateNext == MigrateEquipment \/ MigrateWeapon \/ MigrateTool

(***************************************************************************)
(* Derived attributes.  The getters read prepared system data, which the   *)
(* schema has typed: a StringField holds a string, proficient holds null   *)
(* or a number within the field's min, max and step.  Numbers of this part *)
(* are counted in steps of 0.5 (the step of ToolData's proficient field):  *)
(* Whole(1) is the number 1 and Halves(1) the number 0.5.                  *)
(***************************************************************************)
StepsPerUnit == 2
Halves(h) == Num(h)
Whole(n) == Num(n * StepsPerUnit)

\* Number.isFinite(value), on null or a finite number
IsFinite(x) == x.t = "number"

\* Number(isProficient)
BoolToNumber(b) == IF b THEN Whole(1) ELSE Whole(0)

\* left ?? right
Coalesce(x, y) == IF x.t \in {"null", "undefined", "absent"} THEN y ELSE x

\* CONFIG.DND5E.weaponProficienciesMap[weaponType]
WeaponProficienciesMap(weaponType) ==
    CASE weaponType \in {"simpleM", "simpleR"} -> Str("sim")
      [] weaponType \in {"martialM", "martialR"} -> Str("mar")
      [] OTHER -> Undefined

\* CONFIG.DND5E.armorProficienciesMap[armor.type]
ArmorProficienciesMap(armorType) ==
    CASE armorType \in {"natural", "clothing"} -> Bool(TRUE)
      [] armorType = "light" -> Str("lgt")
      [] armorType = "medium" -> Str("med")
      [] armorType = "heavy" -> Str("hvy")
      [] armorType = "shield" -> Str("shl")
      [] OTHER -> Undefined

\* actor.system.traits?.<trait>?.value ?? new Set()
ActorProfs(a, trait) == IF a[trait] = Undefined THEN {} ELSE a[trait].v

\* actor.getFlag("dnd5e", "tavernBrawlerFeat")
GetFlag(a) == IF a = NoActor THEN Undefined ELSE a.tavernBrawlerFeat

\* actor.system.tools?.[key]
ToolEntry(a, key) ==
    IF a.tools = Undefined THEN Undefined
    ELSE IF key.t = "string" /\ key.v \in DOMAIN a.tools.v
              /\ a.tools.v[key.v] # Absent
         THEN a.tools.v[key.v] ELSE Undefined

\* entry?.value ?? 0
EntryValue(e) ==
    IF e = Undefined THEN Whole(0) ELSE Coalesce(Get(e, "value"), Whole(0))

\* Math.max(a, b)
MathMax(a, b) == IF a.v >= b.v THEN a ELSE b

\* the npc test placed before the override test
WeaponData_proficiencyMultiplierNpcFirst(it, a) ==
    IF a # NoActor /\ a.type = "npc" THEN Whole(1)
    ELSE IF IsFinite(it.proficient) THEN it.proficient
    ELSE IF a = NoActor THEN Whole(0)
    ELSE BoolToNumber(it.weaponType = "natural")

WeaponData_proficiencyMultiplier(it, a) ==
    IF IsFinite(it.proficient) THEN it.proficient
    ELSE IF a = NoActor THEN Whole(0)
    ELSE IF a.type = "npc" THEN Whole(1)
    ELSE
      LET itemProf == WeaponProficienciesMap(it.weaponType)
          actorProfs == ActorProfs(a, "weaponProf")
          natural == it.weaponType = "natural"
          improvised == it.weaponType = "improv" /\ Truthy(GetFlag(a))
          isProficient == \/ natural
                          \/ improvised
                          \/ itemProf \in actorProfs
                          \/ it.baseItem \in actorProfs
      IN BoolToNumber(isProficient)

EquipmentData_proficiencyMultiplier(it, a) ==
    IF IsFinite(it.proficient) THEN it.proficient
    ELSE IF a = NoActor THEN Whole(0)
    ELSE IF a.type = "npc" THEN Whole(1)
    ELSE
      LET itemProf == ArmorProficienciesMap(it.armorType)
          actorProfs == ActorProfs(a, "armorProf")
          isProficient == \/ itemProf = Bool(TRUE)
                          \/ itemProf \in actorProfs
                          \/ it.baseItem \in actorProfs
      IN BoolToNumber(isProficient)

\* the two tool proficiency entries added instead of compared
ToolData_proficiencyMultiplierSum(it, a) ==
    IF IsFinite(it.proficient) THEN it.proficient
    ELSE IF a = NoActor THEN Whole(0)
    ELSE IF a.type = "npc" THEN Whole(1)
    ELSE Num(EntryValue(ToolEntry(a, it.baseItem)).v
               + EntryValue(ToolEntry(a, it.toolType)).v)

ToolData_proficiencyMultiplier(it, a) ==
    IF IsFinite(it.proficient) THEN it.proficient
    ELSE IF a = NoActor THEN Whole(0)
    ELSE IF a.type = "npc" THEN Whole(1)
    ELSE
      LET baseItemProf == ToolEntry(a, it.baseItem)
          categoryProf == ToolEntry(a, it.toolType)
      IN MathMax(EntryValue(baseItemProf), EntryValue(categoryProf))

ConsumableData_proficiencyMultiplier(it, a) ==
    LET isProficient == GetFlag(a)
    IN IF Truthy(isProficient) THEN Whole(1) ELSE Whole(0)


(***************************************************************************)
(* chatProperties.  The CONFIG.DND5E label tables hold localized strings;  *)
(* a key the table lacks reads undefined.                                  *)
(***************************************************************************)
EquipmentTypes(k) ==
    CASE k = "light" -> Str("Light Armor")
      [] k = "shield" -> Str("Shield")
      [] k = "trinket" -> Str("Trinket")
      [] OTHER -> Undefined

ConsumableTypes(k) ==
    CASE k = "potion" -> Str("Potion")
      [] k = "ammo" -> Str("Ammunition")
      [] OTHER -> Undefined

WeaponTypes(k) ==
    CASE k = "simpleM" -> Str("Simple Melee")
      [] k = "martialR" -> Str("Martial Ranged")
      [] k = "natural" -> Str("Natural")
      [] OTHER -> Undefined

\* CONFIG.DND5E.abilities[key]?.label
AbilityLabel(k) ==
    CASE k = "str" -> Str("Strength")
      [] k = "dex" -> Str("Dexterity")
      [] OTHER -> Undefined

\* game.i18n.localize(key)
Localize(key) ==
    CASE key = "DND5E.StealthDisadvantage" -> "Stealth Disadvantage"
      [] key = "DND5E.Charges" -> "Charges"
      [] OTHER -> key

\* String(n) of a small natural number
NumStr(n) ==
    CASE n = 0 -> "0" [] n = 1 -> "1" [] n = 2 -> "2" [] n = 3 -> "3"
      [] OTHER -> "4"

\* ActivatedEffectTemplate.hasLimitedUses, for an item without recharge
HasLimitedUses(it) == Truthy(it.uses.per) /\ it.uses.max > 0

EquipmentData_chatProperties(it) ==
    Arr(<< EquipmentTypes(it.armorType),
           Coalesce(Get(it.labels, "armor"), Null),
           IF it.stealth THEN Str(Localize("DND5E.StealthDisadvantage"))
           ELSE Null >>)

ConsumableData_chatProperties(it) ==
    Arr(<< ConsumableTypes(it.consumableType),
           IF HasLimitedUses(it)
           THEN Str(NumStr(it.uses.value) \o "/" \o NumStr(it.uses.max)
                      \o " " \o Localize("DND5E.Charges"))
           ELSE Null >>)

ToolData_chatProperties(it) == Arr(<< AbilityLabel(it.ability) >>)

WeaponData_chatProperties(it) == Arr(<< WeaponTypes(it.weaponType) >>)

(***************************************************************************)
(* Items and actors the getters are read on.                               *)
(***************************************************************************)
MaxUses == 2        \* largest uses.value and uses.max drawn

SetOf(S) == [t |-> "set", v |-> S]

Overrides01 == {Null, Whole(0), Whole(1)}
ToolLevels == {Halves(h) : h \in 0 .. 2 * StepsPerUnit}

NoUses == [per |-> Null, value |-> 0, max |-> 0]

ItemOf(wt, at, tt, ct, baseItem, proficient, ability, stealth, labels, uses) ==
    [weaponType |-> wt, armorType |-> at, toolType |-> tt,
     consumableType |-> ct, baseItem |-> baseItem,
     proficient |-> proficient, ability |-> ability, stealth |-> stealth,
     labels |-> labels, uses |-> uses]

ProfItems(kind) ==
    CASE kind = "weapon" ->
           {ItemOf(w, "", "", "", b, p, "", FALSE, Undefined, NoUses) :
              w \in {"simpleM", "martialR", "natural", "improv", "siege"},
              b \in {Str(""), Str("club")}, p \in Overrides01}
      [] kind = "equipment" ->
           {ItemOf("", a, "", "", b, p, "", FALSE, Undefined, NoUses) :
              a \in {"light", "heavy", "shield", "natural", "trinket"},
              b \in {Str(""), Str("plate")}, p \in Overrides01}
      [] kind = "tool" ->
           {ItemOf("", "", ty, "", b, p, "", FALSE, Undefined, NoUses) :
              ty \in {Str("art"), Str("music"), Str("")},
              b \in {Str(""), Str("thief")}, p \in {Null} \cup ToolLevels}
      [] kind = "consumable" ->
           {ItemOf("", "", "", c, Str(""), Null, "", FALSE, Undefined, NoUses) :
              c \in {"potion", "ammo"}}

ActorOf(type, weaponProf, armorProf, tools, flag) ==
    [type |-> type, weaponProf |-> weaponProf, armorProf |-> armorProf,
     tools |-> tools, tavernBrawlerFeat |-> flag]

ActorTypes == {"character", "npc"}
FlagValues == {Undefined, Bool(TRUE), Bool(FALSE)}
ToolKeys == {"art", "thief"}
ToolEntries == {Absent} \cup {Obj([value |-> v]) : v \in ToolLevels}

ProfActors(kind) ==
    {NoActor} \cup
    CASE kind = "weapon" ->
           {ActorOf(ty, wp, Undefined, Undefined, f) :
              ty \in ActorTypes, f \in FlagValues,
              wp \in {Undefined}
                       \cup {SetOf(S) : S \in SUBSET {Str("sim"), Str("club")}}}
      [] kind = "equipment" ->
           {ActorOf(ty, Undefined, ap, Undefined, Undefined) :
              ty \in ActorTypes,
              ap \in {Undefined}
                       \cup {SetOf(S) : S \in SUBSET {Str("lgt"), Str("plate")}}}
      [] kind = "tool" ->
           {ActorOf(ty, Undefined, Undefined, tl, Undefined) :
              ty \in ActorTypes,
              tl \in {Undefined} \cup {Obj(f) : f \in [ToolKeys -> ToolEntries]}}
      [] kind = "consumable" ->
           {ActorOf(ty, Undefined, Undefined, Undefined, f) :
              ty \in ActorTypes, f \in FlagValues}

ChatLabels ==
    {Undefined} \cup {Obj([armor |-> l]) : l \in {Absent, Str(""), Str("12 AC")}}

ChatItems(kind) ==
    CASE kind = "weapon" ->
           {ItemOf(w, "", "", "", Str(""), Null, "", FALSE, Undefined, NoUses) :
              w \in {"simpleM", "martialR", "natural", "bogus"}}
      [] kind = "equipment" ->
           {ItemOf("", a, "", "", Str(""), Null, "", st, l, NoUses) :
              a \in {"light", "shield", "trinket", "bogus"},
              st \in BOOLEAN, l \in ChatLabels}
      [] kind = "tool" ->
           {ItemOf("", "", Str(""), "", Str(""), Null, ab, FALSE, Undefined, NoUses) :
              ab \in {"str", "dex", "", "bogus"}}
      [] kind = "consumable" ->
           {ItemOf("", "", "", c, Str(""), Null, "", FALSE, Undefined,
                   [per |-> per, value |-> v, max |-> m]) :
              c \in {"potion", "ammo", "bogus"},
              per \in {Null, Str("charges")},
              v \in 0 .. MaxUses, m \in 0 .. MaxUses}

Kinds == {"weapon", "equipment", "tool", "consumable"}

ProfInit ==
    /\ pkind \in Kinds
    /\ item \in ProfItems(pkind)
    /\ actor \in ProfActors(pkind)
    /\ mult = NotRead
    /\ props = NotRead
    /\ mkind = "none" /\ source = Absent /\ hist = <<>> /\ threw = FALSE
    /\ ctxItems = <<>> /\ filters = Absent /\ view = NotRead
    /\ resources = <<>> /\ currency = Absent /\ dom = NotRead
    /\ pending = {} /\ result = NotRead /\ handled = 0

ChatInit ==
    /\ pkind \in Kinds
    /\ item \in ChatItems(pkind)
    /\ actor = NoActor
    /\ mult = NotRead
    /\ props = NotRead
    /\ mkind = "none" /\ source = Absent /\ hist = <<>> /\ threw = FALSE
    /\ ctxItems = <<>> /\ filters = Absent /\ view = NotRead
    /\ resources = <<>> /\ currency = Absent /\ dom = NotRead
    /\ pending = {} /\ result = NotRead /\ handled = 0

\* one read of item.system.proficiencyMultiplier, per kind
WeaponMultiplier ==
    /\ pkind = "weapon"
    /\ mult = NotRead
    /\ mult' = WeaponData_proficiencyMultiplier(item, actor)
    /\ UNCHANGED <<pkind, item, actor, props, migVars, sheetVars, actorVars>>

EquipmentMultiplier ==
    /\ pkind = "equipment"
    /\ mult = NotRead
    /\ mult' = EquipmentData_proficiencyMultiplier(item, actor)
    /\ UNCHANGED <<pkind, item, actor, props, migVars, sheetVars, actorVars>>

ToolMultiplier ==
    /\ pkind = "tool"
    /\ mult = NotRead
    /\ mult' = ToolData_proficiencyMultiplier(item, actor)
    /\ UNCHANGED <<pkind, item, actor, props, migVars, sheetVars, actorVars>>

ConsumableMultiplier ==
    /\ pkind = "consumable"
    /\ mult = NotRead
    /\ mult' = ConsumableData_proficiencyMultiplier(item, actor)
    /\ UNCHANGED <<pkind, item, actor, props, migVars, sheetVars, actorVars>>

ProfNext ==
    WeaponMultiplier \/ EquipmentMultiplier \/ ToolMultiplier
      \/ ConsumableMultiplier

\* one read of item.system.chatProperties, per kind
WeaponChat ==
    /\ pkind = "weapon"
    /\ props = NotRead
    /\ props' = WeaponData_chatProperties(item)
    /\ UNCHANGED <<pkind, item, actor, mult, migVars, sheetVars, actorVars>>

EquipmentChat ==
    /\ pkind = "equipment"
    /\ props = NotRead
    /\ props' = EquipmentData_chatProperties(item)
    /\ UNCHANGED <<pkind, item, actor, mult, migVars, sheetVars, actorVars>>

ToolChat ==
    /\ pkind = "tool"
    /\ props = NotRead
    /\ props' = ToolData_chatProperties(item)
    /\ UNCHANGED <<pkind, item, actor, mult, migVars, sheetVars, actorVars>>

ConsumableChat ==
    /\ pkind = "consumable"
    /\ props = NotRead
    /\ props' = ConsumableData_chatProperties(item)
    /\ UNCHANGED <<pkind, item, actor, mult, migVars, sheetVars, actorVars>>

ChatNext == WeaponChat \/ EquipmentChat \/ ToolChat \/ ConsumableChat

SpecMigrate == MigrateInit /\ [][MigrateNext]_vars
SpecProf == ProfInit /\ [][ProfNext]_vars
SpecChat == ChatInit /\ [][ChatNext]_vars

(***************************************************************************)
(* The character sheet.  An item is a record of the fields _prepareItems   *)
(* and its helpers read; the view holds the items each bucket lists.       *)
(***************************************************************************)
MaxLevel == 20      \* CONFIG.DND5E.maxLevel

InventoryTypes ==
    {"weapon", "equipment", "consumable", "tool", "backpack", "loot"}

ItemTemplate(type, name, id, cid, levels, act, eq, lvl, mode, prepared) ==
    [type |-> type, name |-> name, identifier |-> id,
     classIdentifier |-> cid, levels |-> levels,
     activation |-> act, equipped |-> eq,
     spellLevel |-> lvl, prepMode |-> mode, prepared |-> prepared]

Physical(type, equipped) ==
    ItemTemplate(type, type, "", "", 0, "", equipped, 0, "", FALSE)

ItemCatalog ==
    { Physical("weapon", Bool(TRUE)), Physical("weapon", Bool(FALSE)),
      Physical("equipment", Bool(TRUE)), Physical("consumable", Bool(FALSE)),
      Physical("tool", Bool(FALSE)), Physical("backpack", Bool(FALSE)),
      Physical("loot", Undefined),
      ItemTemplate("spell", "Light", "", "", 0, "action", Undefined,
                   0, "prepared", TRUE),
      ItemTemplate("spell", "Shield", "", "", 0, "reaction", Undefined,
                   1, "prepared", TRUE),
      ItemTemplate("feat", "Second Wind", "", "", 0, "bonus", Undefined,
                   0, "", FALSE),
      ItemTemplate("feat", "Darkvision", "", "", 0, "", Undefined,
                   0, "", FALSE),
      ItemTemplate("feat", "Action Surge", "", "", 0, "action", Undefined,
                   0, "", FALSE),
      ItemTemplate("background", "Sage", "", "", 0, "", Undefined,
                   0, "", FALSE),
      ItemTemplate("class", "Fighter", "fighter", "", 2, "", Undefined,
                   0, "", FALSE),
      ItemTemplate("class", "Wizard", "", "", 1, "", Undefined,
                   0, "", FALSE),
      ItemTemplate("subclass", "Champion", "champion", "fighter", 0, "",
                   Undefined, 0, "", FALSE),
      ItemTemplate("subclass", "Thief", "thief", "rogue", 0, "", Undefined,
                   0, "", FALSE),
      ItemTemplate("race", "Elf", "", "", 0, "", Undefined, 0, "", FALSE) }

\* a template as an owned item: ids are unique within an actor
WithId(tpl, id) ==
    [id |-> id, type |-> tpl.type, name |-> tpl.name,
     identifier |-> tpl.identifier, classIdentifier |-> tpl.classIdentifier,
     levels |-> tpl.levels, activation |-> tpl.activation,
     equipped |-> tpl.equipped, spellLevel |-> tpl.spellLevel,
     prepMode |-> tpl.prepMode, prepared |-> tpl.prepared]

OwnedItems(n) ==
    {[i \in 1 .. n |-> WithId(f[i], i)] : f \in [1 .. n -> ItemCatalog]}

RECURSIVE SumLevels(_)
\* actor.system.details.level: the levels of the actor's class items, added
SumLevels(items) ==
    IF items = <<>> THEN 0
    ELSE (IF items[1].type = "class" THEN items[1].levels ELSE 0)
           + SumLevels(Tail(items))

\* name.slugify({strict: true})
Slugify(name) ==
    CASE name = "Fighter" -> "fighter"
      [] name = "Wizard" -> "wizard"
      [] name = "Second Wind" -> "second-wind"
      [] name = "Rogue" -> "rogue"
      [] name = "Champion" -> "champion"
      [] name = "Battle Master" -> "battle-master"
      [] name = "Thief" -> "thief"
      [] name = "Evoker" -> "evoker"
      [] OTHER -> "item"

\* ActorSheet5e._filterItems: an item stays when every active filter of its
\* partition accepts it
FilterAccepts(it, f) ==
    CASE f \in {"action", "bonus", "reaction"} -> it.activation = f
      [] f = "equipped" -> it.equipped = Bool(TRUE)
      [] f = "prepared" -> it.spellLevel = 0 \/ it.prepared
      [] OTHER -> TRUE

FilterItems(items, active) ==
    SelectSeq(items, LAMBDA it : \A f \in active : FilterAccepts(it, f))

OfType(items, type) == SelectSeq(items, LAMBDA it : it.type = type)

\* ActorSheet5e._prepareSpellbook: the spells grouped by spell level
SpellLevels == 0 .. 1
PrepareSpellbook(spells) ==
    [l \in SpellLevels |-> SelectSeq(spells, LAMBDA sp : sp.spellLevel = l)]

\* classes.sort((a, b) => a.system.levels - b.system.levels): ascending
InsertByLevelsAscending(sorted, cls) ==
    LET keep == {i \in 1 .. Len(sorted) : sorted[i].levels <= cls.levels}
        n == Cardinality(keep)
    IN SubSeq(sorted, 1, n) \o <<cls>> \o SubSeq(sorted, n + 1, Len(sorted))

\* classes.sort((a, b) => b.system.levels - a.system.levels): a stable sort
InsertByLevels(sorted, cls) ==
    LET keep == {i \in 1 .. Len(sorted) : sorted[i].levels >= cls.levels}
        n == Cardinality(keep)
    IN SubSeq(sorted, 1, n) \o <<cls>> \o SubSeq(sorted, n + 1, Len(sorted))

RECURSIVE SortByLevelsDesc(_)
SortByLevelsDesc(classes) ==
    IF classes = <<>> THEN <<>>
    ELSE InsertByLevels(SortByLevelsDesc(SubSeq(classes, 1, Len(classes) - 1)),
                        classes[Len(classes)])

\* disabled: delta >= maxLevelDelta in place of delta > maxLevelDelta
AvailableLevelsAtLimit(cls, maxLevelDelta) ==
    [level \in 1 .. MaxLevel |->
       [level |-> level, delta |-> level - cls.levels,
        disabled |-> (level - cls.levels) >= maxLevelDelta]]

\* Array.fromRange(maxLevel + 1).slice(1).map(...)
AvailableLevels(cls, maxLevelDelta) ==
    [level \in 1 .. MaxLevel |->
       [level |-> level, delta |-> level - cls.levels,
        disabled |-> (level - cls.levels) > maxLevelDelta]]

\* cls.system.identifier || cls.name.slugify({strict: true})
ClassIdentifier(cls) ==
    IF cls.identifier # "" THEN cls.identifier ELSE Slugify(cls.name)

\* index of the first subclass of the class identifier, or 0
FindSubclass(subclasses, identifier) ==
    LET hits == {i \in 1 .. Len(subclasses) :
                   subclasses[i].classIdentifier = identifier}
    IN IF hits = {} THEN 0 ELSE CHOOSE i \in hits : \A j \in hits : i <= j

RemoveAt(seq, i) == SubSeq(seq, 1, i - 1) \o SubSeq(seq, i + 1, Len(seq))

\* subclasses.find in place of subclasses.findSplice: the match stays in
\* the subclass list
InterleaveNoSplice(classes, subclasses) ==
    LET RECURSIVE Walk(_, _)
        Walk(rest, arr) ==
          IF rest = <<>> THEN [classes |-> arr, subclasses |-> subclasses]
          ELSE LET i == FindSubclass(subclasses, ClassIdentifier(rest[1]))
               IN Walk(Tail(rest),
                       IF i = 0 THEN Append(arr, rest[1])
                       ELSE arr \o <<rest[1], subclasses[i]>>)
    IN Walk(classes, <<>>)

\* classes.reduce(...): each class followed by its subclass, which
\* findSplice takes out of the subclass list
Interleave(classes, subclasses) ==
    LET RECURSIVE Walk(_, _, _)
        Walk(rest, subs, arr) ==
          IF rest = <<>> THEN [classes |-> arr, subclasses |-> subs]
          ELSE LET i == FindSubclass(subs, ClassIdentifier(rest[1]))
               IN IF i = 0
                  THEN Walk(Tail(rest), subs, Append(arr, rest[1]))
                  ELSE Walk(Tail(rest), RemoveAt(subs, i),
                            arr \o <<rest[1], subs[i]>>)
    IN Walk(classes, subclasses, <<>>)

\* ActorSheet5eCharacter._prepareItems(context): what it assigns to context.
\* Of context.itemContext the view keeps availableLevels; the per-item
\* display flags (isStack, attunement, hasUses, totalWeight, toggle state)
\* decide no bucket and are left out.
PrepareItems(ctx, flt, actorLevel) ==
    LET items == FilterItems(SelectSeq(ctx, LAMBDA it :
                                it.type \in InventoryTypes), flt.inventory)
        spells == FilterItems(OfType(ctx, "spell"), flt.spellbook)
        feats == FilterItems(OfType(ctx, "feat"), flt.features)
        backgrounds == OfType(ctx, "background")
        sorted == SortByLevelsDesc(OfType(ctx, "class"))
        maxLevelDelta == MaxLevel - actorLevel
        paired == Interleave(sorted, OfType(ctx, "subclass"))
        allFeats == feats \o paired.subclasses
    IN [ inventory |-> [ty \in InventoryTypes |-> OfType(items, ty)],
         spellbook |-> PrepareSpellbook(spells),
         preparedSpells |->
            Len(SelectSeq(spells, LAMBDA sp :
                  sp.spellLevel > 0 /\ sp.prepMode = "prepared" /\ sp.prepared)),
         features |->
            [ background |-> backgrounds,
              classes |-> paired.classes,
              active |-> SelectSeq(allFeats, LAMBDA ft : ft.activation # ""),
              passive |-> SelectSeq(allFeats, LAMBDA ft : ft.activation = "") ],
         availableLevels |->
            [c \in {sorted[i].id : i \in 1 .. Len(sorted)} |->
               AvailableLevels(CHOOSE cls \in {sorted[i] : i \in 1 .. Len(sorted)} :
                                 cls.id = c, maxLevelDelta)],
         warnings |->
            [i \in 1 .. Len(paired.subclasses) |->
               [name |-> paired.subclasses[i].name,
                class |-> paired.subclasses[i].classIdentifier]],
         labelsBackground |->
            IF backgrounds = <<>> THEN Undefined ELSE Str(backgrounds[1].name) ]

FilterSets ==
    [inventory : {{}, {"equipped"}}, spellbook : {{}},
     features : {{}, {"action"}}]

PrepareInit ==
    /\ \E n \in 0 .. MaxItems : ctxItems \in OwnedItems(n)
    /\ SumLevels(ctxItems) <= MaxLevel
    /\ filters \in FilterSets
    /\ view = NotRead
    /\ mkind = "none" /\ source = Absent /\ hist = <<>> /\ threw = FALSE
    /\ pkind = "none" /\ item = Absent /\ actor = NoActor
    /\ mult = NotRead /\ props = NotRead
    /\ resources = <<>> /\ currency = Absent /\ dom = NotRead
    /\ pending = {} /\ result = NotRead /\ handled = 0

\* one render of the sheet: _prepareItems fills the context
PrepareItemsStep ==
    /\ view = NotRead
    /\ view' = PrepareItems(ctxItems, filters, SumLevels(ctxItems))
    /\ UNCHANGED <<ctxItems, filters, migVars, resVars, actorVars>>

PrepareNext == PrepareItemsStep

SpecPrepare == PrepareInit /\ [][PrepareNext]_vars

(***************************************************************************)
(* _prepareItems on characters of several classes and subclasses.          *)
(***************************************************************************)
MaxClassItems == 4  \* class and subclass items of one character

ClassTemplate(name, id, levels) ==
    ItemTemplate("class", name, id, "", levels, "", Undefined, 0, "", FALSE)

SubclassTemplate(name, id, cid) ==
    ItemTemplate("subclass", name, id, cid, 0, "", Undefined, 0, "", FALSE)

ClassCatalog ==
    { ClassTemplate("Fighter", "fighter", 5),
      ClassTemplate("Fighter", "fighter", 12),
      ClassTemplate("Wizard", "", 3),
      ClassTemplate("Rogue", "rogue", 3),
      SubclassTemplate("Champion", "champion", "fighter"),
      SubclassTemplate("Battle Master", "battle-master", "fighter"),
      SubclassTemplate("Thief", "thief", "rogue"),
      SubclassTemplate("Evoker", "", "wizard") }

ClassItems(n) ==
    {[i \in 1 .. n |-> WithId(f[i], i)] : f \in [1 .. n -> ClassCatalog]}

ClassesInit ==
    /\ \E n \in 0 .. MaxClassItems : ctxItems \in ClassItems(n)
    /\ SumLevels(ctxItems) <= MaxLevel
    /\ filters \in {f \in FilterSets : f.inventory = {}}
    /\ view = NotRead
    /\ mkind = "none" /\ source = Absent /\ hist = <<>> /\ threw = FALSE
    /\ pkind = "none" /\ item = Absent /\ actor = NoActor
    /\ mult = NotRead /\ props = NotRead
    /\ resources = <<>> /\ currency = Absent /\ dom = NotRead
    /\ pending = {} /\ result = NotRead /\ handled = 0

SpecClasses == ClassesInit /\ [][PrepareNext]_vars

(***************************************************************************)
(* Rendering the sheet: getData, then activateListeners on the html, and   *)
(* the click handlers activateListeners installs for resources.            *)
(***************************************************************************)
MaxLinked == 2      \* items of a character whose sheet is rendered
MaxPool == 1        \* largest value and max of a resource

\* the actor's data the handlers of the sheet can change
Stored == [items |-> ctxItems, resources |-> resources, currency |-> currency]

\* what `result` keeps of a handler run: the handler, its input, what it
\* returned or went on to do, the error it notified and, where a property
\* needs it, the actor's data before the run
Outcome(op, input, returned, error, before) ==
    [op |-> op, input |-> input, returned |-> returned, error |-> error,
     before |-> before]

\* Object.keys(CONFIG.DND5E.resourceOptions)
SheetResources == <<"primary", "secondary", "tertiary">>

BuiltIn == {SheetResources[i] : i \in 1 .. Len(SheetResources)}

\* values foundry.utils.randomID() returns
RandomIDs == {"id1", "id2"}

\* a resource object; Absent marks a key the object does not have
ResourceRecord(value, max) ==
    [label |-> Str(""), sr |-> Bool(FALSE), lr |-> Bool(FALSE),
     value |-> Num(value), max |-> Num(max),
     name |-> Absent, placeholder |-> Absent]

\* the object {} the add-resource click stores
EmptyResource ==
    [label |-> Absent, sr |-> Absent, lr |-> Absent, value |-> Absent,
     max |-> Absent, name |-> Absent, placeholder |-> Absent]

\* r.titleCase()
TitleCase(r) ==
    CASE r = "primary" -> "Primary"
      [] r = "secondary" -> "Secondary"
      [] r = "tertiary" -> "Tertiary"
      [] OTHER -> r

\* the reduce callback of getData: the object it puts in context.resources,
\* which is the actor's own object when the actor has the resource
ContextResource(res, r) ==
    LET own == IF r \in DOMAIN res THEN res[r] ELSE EmptyResource
        named == [own EXCEPT !.name = Str(r),
                    !.placeholder = Str(Localize("DND5E.Resource" \o TitleCase(r)))]
        valued == IF named.value = Num(0)
                  THEN [named EXCEPT !.value = Absent] ELSE named
    IN IF valued.max = Num(0) THEN [valued EXCEPT !.max = Absent] ELSE valued

\* context.resources
ContextResources(res) ==
    [i \in 1 .. Len(SheetResources) |-> ContextResource(res, SheetResources[i])]

\* actor.system.resources once getData has run
ResourcesAfterGetData(res) ==
    [id \in DOMAIN res |->
       IF id \in BuiltIn THEN ContextResource(res, id) ELSE res[id]]

\* an inventory item with the fields activateListeners reads
LinkedItem(type, id, link, uses) ==
    [id |-> id, type |-> type, name |-> type, identifier |-> "",
     classIdentifier |-> "", levels |-> 0, activation |-> "",
     equipped |-> Bool(FALSE), spellLevel |-> 0, prepMode |-> "",
     prepared |-> FALSE, resourceLink |-> link, hasLimitedUses |-> uses]

ResourceLinks == {"", "primary", "secondary", "id1"}

LinkedItems(n) ==
    [1 .. n -> {"weapon", "consumable"} \X ResourceLinks \X BOOLEAN]

\* Actor5e._getResourceOverrides().resourceOverrides: resource name -> id of
\* the item whose resourceLink names the resource (the last such item)
ResourceOverrides(items) ==
    [r \in {items[i].resourceLink : i \in 1 .. Len(items)} \ {""} |->
       LET linking == {i \in 1 .. Len(items) : items[i].resourceLink = r}
       IN items[CHOOSE i \in linking : \A j \in linking : j <= i].id]

\* Array.prototype.indexOf, counted from 1: 0 where JavaScript gives -1
IndexOf(seq, x) ==
    LET hits == {i \in 1 .. Len(seq) : seq[i] = x}
    IN IF hits = {} THEN 0 ELSE CHOOSE i \in hits : \A j \in hits : i <= j

\* this.actor.items.get(itemId)
ItemById(items, id) == items[CHOOSE i \in 1 .. Len(items) : items[i].id = id]

\* the named inputs of a resource element and the inputs of an item row
ResourceInputs == {"label", "sr", "lr", "value", "max"}

\* no filter on the name: the value input is disabled as well
DisabledInputsAll(r) == {<<r, f>> : f \in ResourceInputs}

\* element.find("[name]").filter((index, el) => !el.name.includes("value")):
\* of system.resources.<r>.<f> the name holds "value" only for f = "value"
DisabledInputs(r) == {<<r, f>> : f \in ResourceInputs \ {"value"}}

\* what _addResource(key, data) gives: false for an empty key; otherwise it
\* reads this.system.resources, a TypeError on a sheet without a `system`
\* property, or returns the Promise of renderTemplate
AddResource(key, hasSystem) ==
    CASE key = "" -> "false"
      [] ~hasSystem -> "TypeError"
      [] OTHER -> "Promise"

\* the loop over Object.entries(system.resources): innerHTML of a Promise is
\* the text "[object Promise]", firstElementChild is null and appendChild
\* raises, so the first resource with a key ends activateListeners
ResourceLoopRaises(res, hasSystem) ==
    \E id \in DOMAIN res : AddResource(id, hasSystem) # "false"

\* activateListeners(html) from the resource link feature on: the inputs it
\* disables, the parts it removes, the controls it adds
Listeners(items, res, hasSystem) ==
    LET resourceOverrides == ResourceOverrides(items)
        shown == {r \in DOMAIN resourceOverrides : IndexOf(SheetResources, r) # 0}
        plain == {r \in DOMAIN resourceOverrides :
                    ~ItemById(items, resourceOverrides[r]).hasLimitedUses}
        raised == ResourceLoopRaises(res, hasSystem)
    IN [ disabled |-> UNION {DisabledInputs(r) : r \in shown},
         removed |-> (shown \cap plain) \X {"sep", "max"},
         itemDisabled |->
            {<<resourceOverrides[r], "uses">> : r \in DOMAIN resourceOverrides}
              \cup {<<resourceOverrides[r], "charges">> :
                      r \in DOMAIN resourceOverrides}
              \cup {<<resourceOverrides[r], "quantity">> : r \in plain},
         removeControls |-> {},
         addControl |-> ~raised,
         raised |-> raised ]

ResourceMaps ==
    {[r \in {} |-> EmptyResource]}
      \cup {[r \in BuiltIn \cup user |->
               CASE r = "primary" -> ResourceRecord(v, m)
                 [] r \in BuiltIn -> ResourceRecord(MaxPool, MaxPool)
                 [] OTHER -> EmptyResource] :
             v \in 0 .. MaxPool, m \in 0 .. MaxPool, user \in {{}, {"id1"}}}

RenderInit ==
    /\ \E n \in 0 .. MaxLinked : \E f \in LinkedItems(n) :
          ctxItems = [i \in 1 .. n |-> LinkedItem(f[i][1], i, f[i][2], f[i][3])]
    /\ resources \in ResourceMaps
    /\ filters = [inventory |-> {}, spellbook |-> {}, features |-> {}]
    /\ view = NotRead /\ dom = NotRead /\ result = NotRead /\ handled = 0
    /\ currency = Absent /\ pending = {}
    /\ mkind = "none" /\ source = Absent /\ hist = <<>> /\ threw = FALSE
    /\ pkind = "none" /\ item = Absent /\ actor = NoActor
    /\ mult = NotRead /\ props = NotRead

\* getData(): super.getData prepares the items, then the resources; of the
\* labels merged in at the end the view keeps none
GetData ==
    /\ view' = [prepared |-> PrepareItems(ctxItems, filters, SumLevels(ctxItems)),
                resources |-> ContextResources(resources)]
    /\ resources' = ResourcesAfterGetData(resources)
    /\ result' = Outcome("getData", "", "context", "", Stored)
    /\ UNCHANGED <<ctxItems, filters, currency, dom, pending, handled,
                   migVars, resVars>>

\* activateListeners(html) on the html of the last getData
ActivateListeners ==
    /\ view # NotRead
    /\ \E hasSystem \in BOOLEAN :
          dom' = Listeners(ctxItems, resources, hasSystem)
    /\ result' = Outcome("activateListeners", "", "", "", Stored)
    /\ UNCHANGED <<ctxItems, filters, view, resources, currency, pending,
                   handled, migVars, resVars>>

\* a click on the add-resource control
AddResourceClick ==
    /\ dom # NotRead /\ dom.addControl
    /\ \E id \in RandomIDs \ DOMAIN resources :
          resources' = [r \in DOMAIN resources \cup {id} |->
                          IF r = id THEN EmptyResource ELSE resources[r]]
    /\ result' = Outcome("addResource", "", "", "", Stored)
    /\ UNCHANGED <<ctxItems, filters, view, currency, dom, pending, handled,
                   migVars, resVars>>

RenderNext == GetData \/ ActivateListeners \/ AddResourceClick

SpecRender == RenderInit /\ [][RenderNext]_vars

(***************************************************************************)
(* The handlers that change the character: _onLevelChange with its         *)
(* level-down confirmation, _onDropSingleItem, and the currency            *)
(* conversion of _onSheetAction.  The html the events come from is the one *)
(* of `view`, which is as old as the last render.                          *)
(***************************************************************************)
MaxOwned == 3       \* items a character comes to own through drops
MaxHandlers == 1    \* _onLevelChange handlers awaiting their confirmation
MaxEvents == 3      \* events handled on one sheet

\* Item5e.identifier: system.identifier, else the slugified name
Identifier(it) ==
    IF it.identifier # "" THEN it.identifier ELSE Slugify(it.name)

\* the class levels after classItem.update({"system.levels": levels + delta})
UpdateLevels(items, classId, delta) ==
    [i \in 1 .. Len(items) |->
       IF items[i].id = classId
       THEN [items[i] EXCEPT !.levels = items[i].levels + delta]
       ELSE items[i]]

\* _onLevelChange up to its first await: what the handler goes on to do
LevelChangeRoute(delta, disableAdvancements, steps) ==
    CASE delta = 0 -> "return"
      [] ~disableAdvancements /\ steps /\ delta > 0 -> "manager"
      [] ~disableAdvancements /\ steps -> "confirm"
      [] OTHER -> "update"

\* no catch: a closed dialog goes on to the update
ConfirmRouteUncaught(answer) ==
    CASE answer = "remove" -> "manager"
      [] OTHER -> "update"

\* _onLevelChange after AdvancementConfirmationDialog.forLevelDown: the
\* dialog resolves true (remove), false (keep) or rejects (closed)
ConfirmRoute(answer) ==
    CASE answer = "remove" -> "manager"
      [] answer = "keep" -> "update"
      [] OTHER -> "return"

\* the options of a selector a user picks among: the lowest, the one of the
\* level shown and the highest that are not disabled
LevelPicks(options) ==
    {l \in DOMAIN options :
       /\ ~options[l].disabled
       /\ \/ l = 1
          \/ options[l].delta = 0
          \/ l + 1 \notin DOMAIN options
          \/ options[l + 1].disabled}

\* itemData.system.levels taken as dropped
DropLevelsUnclamped(levels, charLevel) == levels

\* Math.min(itemData.system.levels, CONFIG.DND5E.maxLevel - charLevel)
DropLevels(levels, charLevel) ==
    IF levels <= MaxLevel - charLevel THEN levels ELSE MaxLevel - charLevel

\* this.actor.itemTypes[type].find(i => i.identifier === identifier): the
\* index of the item, or 0
FindByIdentifier(items, type, identifier) ==
    LET hits == {i \in 1 .. Len(items) :
                   items[i].type = type /\ Identifier(items[i]) = identifier}
    IN IF hits = {} THEN 0 ELSE CHOOSE i \in hits : \A j \in hits : i <= j

\* the duplicate check left out
OtherSubclassUnchecked(items, identifier) == 0

\* this.actor.itemTypes.subclass.find(i => i.identifier === identifier)
OtherSubclass(items, identifier) ==
    FindByIdentifier(items, "subclass", identifier)

\* Item5e.subclass of a class item: whether the actor has a subclass item
\* whose classIdentifier is the class's identifier
HasSubclass(items, cls) ==
    \E i \in 1 .. Len(items) :
       items[i].type = "subclass" /\ items[i].classIdentifier = Identifier(cls)

\* what a run of _onDropSingleItem leaves: the items, the value returned
\* and the error notified
Dropped(items, returned, error) ==
    [items |-> items, returned |-> returned, error |-> error]

\* ActorSheet5e._onDropSingleItem and the creation that follows it: an item
\* with advancement goes to the advancement manager, any other is created
SuperDropSingleItem(items, itemData, disableAdvancements, steps) ==
    IF ~disableAdvancements /\ steps THEN Dropped(items, "false", "")
    ELSE Dropped(Append(items, WithId(itemData, Len(items) + 1)), "itemData", "")

\* _onDropSingleItem(itemData)
OnDropSingleItem(items, itemData, disableAdvancements, steps) ==
    LET levels == DropLevels(itemData.levels, SumLevels(items))
        cls == FindByIdentifier(items, "class", itemData.identifier)
        other == OtherSubclass(items, itemData.identifier)
        parent == FindByIdentifier(items, "class", itemData.classIdentifier)
    IN CASE itemData.type = "class" /\ levels <= 0 ->
              Dropped(items, "false", "DND5E.MaxCharacterLevelExceededWarn")
         [] itemData.type = "class" /\ cls # 0 ->
              IF ~disableAdvancements /\ steps THEN Dropped(items, "false", "")
              ELSE Dropped(UpdateLevels(items, items[cls].id, levels), "false", "")
         [] itemData.type = "class" ->
              SuperDropSingleItem(items, [itemData EXCEPT !.levels = levels],
                                  disableAdvancements, steps)
         [] itemData.type = "subclass" /\ other # 0 ->
              Dropped(items, "false", "DND5E.SubclassDuplicateError")
         [] itemData.type = "subclass" /\ parent # 0
              /\ HasSubclass(items, items[IF parent = 0 THEN 1 ELSE parent]) ->
              Dropped(items, "false", "DND5E.SubclassAssignmentError")
         [] OTHER ->
              SuperDropSingleItem(items, itemData, disableAdvancements, steps)

\* the item data dropped on the sheet
DropData ==
    { ClassTemplate("Fighter", "fighter", 1),
      ClassTemplate("Fighter", "fighter", MaxLevel),
      ClassTemplate("Wizard", "", 1),
      SubclassTemplate("Champion", "champion", "fighter"),
      SubclassTemplate("Battle Master", "battle-master", "fighter") }

\* Actor5e.convertCurrency: coins changed up into the next denomination
ConvertCurrency(coins) ==
    [cp |-> coins.cp % 10, sp |-> coins.sp + (coins.cp \div 10)]

LevelsInit ==
    /\ ctxItems = <<>>
    /\ filters = [inventory |-> {}, spellbook |-> {}, features |-> {}]
    /\ view = NotRead /\ dom = NotRead /\ result = NotRead /\ handled = 0
    /\ resources = <<>> /\ pending = {}
    /\ currency = Absent
    /\ mkind = "none" /\ source = Absent /\ hist = <<>> /\ threw = FALSE
    /\ pkind = "none" /\ item = Absent /\ actor = NoActor
    /\ mult = NotRead /\ props = NotRead

\* the sheet rendered anew, as after an update of the actor
RenderSheet ==
    /\ view # PrepareItems(ctxItems, filters, SumLevels(ctxItems))
    /\ view' = PrepareItems(ctxItems, filters, SumLevels(ctxItems))
    /\ UNCHANGED <<ctxItems, filters, migVars, resVars, actorVars>>

\* _onLevelChange(event) up to its return or its first await, for an option
\* of a level selector of a sheet rendered from the actor as it is now
OnLevelChange ==
    /\ view = PrepareItems(ctxItems, filters, SumLevels(ctxItems))
    /\ handled < MaxEvents /\ handled' = handled + 1
    /\ \E classId \in DOMAIN view.availableLevels :
       \E l \in LevelPicks(view.availableLevels[classId]) :
       \E disableAdvancements \in BOOLEAN, steps \in BOOLEAN :
          LET delta == view.availableLevels[classId][l].delta
              route == LevelChangeRoute(delta, disableAdvancements, steps)
          IN /\ route = "confirm" => Cardinality(pending) < MaxHandlers
             /\ ctxItems' = IF route = "update"
                            THEN UpdateLevels(ctxItems, classId, delta)
                            ELSE ctxItems
             /\ pending' = IF route = "confirm"
                           THEN pending \cup {[classId |-> classId, delta |-> delta]}
                           ELSE pending
             /\ result' = Outcome("levelChange", "", route, "", NotRead)
    /\ UNCHANGED <<filters, view, resources, currency, dom, migVars, resVars>>

\* _onLevelChange(event) for an option of the html on display, which was
\* rendered before the updates of other handlers were applied
OnLevelChangeEarlierView ==
    /\ view # NotRead
    /\ handled < MaxEvents /\ handled' = handled + 1
    /\ \E classId \in DOMAIN view.availableLevels :
       \E l \in LevelPicks(view.availableLevels[classId]) :
       \E disableAdvancements \in BOOLEAN, steps \in BOOLEAN :
          LET delta == view.availableLevels[classId][l].delta
              route == LevelChangeRoute(delta, disableAdvancements, steps)
          IN /\ route = "confirm" => Cardinality(pending) < MaxHandlers
             /\ ctxItems' = IF route = "update"
                            THEN UpdateLevels(ctxItems, classId, delta)
                            ELSE ctxItems
             /\ pending' = IF route = "confirm"
                           THEN pending \cup {[classId |-> classId, delta |-> delta]}
                           ELSE pending
             /\ result' = Outcome("levelChange", "", route, "", NotRead)
    /\ UNCHANGED <<filters, view, resources, currency, dom, migVars, resVars>>

\* _onLevelChange from the answer to the level-down confirmation on
ResolveLevelDown ==
    /\ UNCHANGED handled
    /\ \E h \in pending : \E answer \in {"remove", "keep", "closed"} :
          LET route == ConfirmRoute(answer)
          IN /\ ctxItems' = IF route = "update"
                            THEN UpdateLevels(ctxItems, h.classId, h.delta)
                            ELSE ctxItems
             /\ pending' = pending \ {h}
             /\ result' = Outcome("levelDown", answer, route, "", NotRead)
    /\ UNCHANGED <<filters, view, resources, currency, dom, migVars, resVars>>

\* _onDropSingleItem(itemData)
DropSingleItem ==
    /\ handled < MaxEvents /\ handled' = handled + 1
    /\ \E itemData \in DropData :
       \E disableAdvancements \in BOOLEAN, steps \in BOOLEAN :
          LET out == OnDropSingleItem(ctxItems, itemData, disableAdvancements, steps)
          IN /\ Len(out.items) <= MaxOwned
             /\ ctxItems' = out.items
             /\ result' = Outcome("drop", itemData, out.returned, out.error,
                                  NotRead)
    /\ UNCHANGED <<filters, view, resources, currency, dom, pending,
                   migVars, resVars>>

\* _onSheetAction, convertCurrency: the confirmation and the answer to it
ConvertCurrencyDialog ==
    /\ handled < MaxEvents /\ handled' = handled + 1
    /\ \E answer \in {"yes", "no", "closed"} :
          /\ currency' = IF answer = "yes" THEN ConvertCurrency(currency)
                         ELSE currency
          /\ result' = Outcome("convertCurrency", answer, "", "", NotRead)
    /\ UNCHANGED <<ctxItems, filters, view, resources, dom, pending,
                   migVars, resVars>>

LevelsNext ==
    \/ RenderSheet
    \/ OnLevelChange
    \/ ResolveLevelDown
    \/ DropSingleItem

SpecLevels == LevelsInit /\ [][LevelsNext]_vars

\* a character of two classes, with coins to convert
TwoClasses ==
    << WithId(ClassTemplate("Fighter", "fighter", 3), 1),
       WithId(ClassTemplate("Wizard", "", 2), 2) >>

ConfirmInit ==
    /\ ctxItems = TwoClasses
    /\ filters = [inventory |-> {}, spellbook |-> {}, features |-> {}]
    /\ view = NotRead /\ dom = NotRead /\ result = NotRead /\ handled = 0
    /\ resources = <<>> /\ pending = {}
    /\ currency \in {[cp |-> 25, sp |-> 0], [cp |-> 7, sp |-> 1]}
    /\ mkind = "none" /\ source = Absent /\ hist = <<>> /\ threw = FALSE
    /\ pkind = "none" /\ item = Absent /\ actor = NoActor
    /\ mult = NotRead /\ props = NotRead

ConfirmNext ==
    \/ RenderSheet
    \/ OnLevelChange
    \/ ResolveLevelDown
    \/ ConvertCurrencyDialog

SpecConfirm == ConfirmInit /\ [][ConfirmNext]_vars

RaceInit ==
    /\ ctxItems = TwoClasses
    /\ filters = [inventory |-> {}, spellbook |-> {}, features |-> {}]
    /\ view = NotRead /\ dom = NotRead /\ result = NotRead /\ handled = 0
    /\ resources = <<>> /\ pending = {}
    /\ currency = Absent
    /\ mkind = "none" /\ source = Absent /\ hist = <<>> /\ threw = FALSE
    /\ pkind = "none" /\ item = Absent /\ actor = NoActor
    /\ mult = NotRead /\ props = NotRead

RaceNext ==
    \/ RenderSheet
    \/ OnLevelChangeEarlierView
    \/ ResolveLevelDown

SpecRace == RaceInit /\ [][RaceNext]_vars

(***************************************************************************)
(* Properties of migration (SpecMigrate).                                  *)
(***************************************************************************)
Migrated == Len(hist) >= 2
MigratedTwice == Len(hist) >= 3

\* C1: migrating an already migrated record changes nothing:
\* migrate(k, migrate(k, r)) = migrate(k, r) for every kind and raw record,
\* nested arrays included.
C1_MigrateIdempotent == MigratedTwice => hist[3] = hist[2]

\* C2: migrateData completes without raising, whatever the raw record holds.
C2_MigrateNeverRaises == ~threw

NumberOrNull(x) == x.t \in {"number", "null"}
Missing(x) == x.t \in {"absent", "undefined"}

EquipmentSchemaOk(src) ==
    /\ Missing(Get(Field(src, "armor"), "dex"))
         \/ NumberOrNull(Get(src.armor, "dex"))
    /\ Missing(src.strength) \/ NumberOrNull(src.strength)
    /\ Missing(src.proficient) \/ src.proficient \in {Num(0), Num(1), Null}

WeaponSchemaOk(src) ==
    /\ src.properties.t = "object" =>
         \A k \in DOMAIN src.properties.v :
            src.properties.v[k] = Absent \/ IsBoolean(src.properties.v[k])
    /\ Missing(src.weaponType) \/ IsString(src.weaponType)

ToolSchemaOk(src) == Missing(src.ability) \/ IsString(src.ability)

\* C3: a migrated record satisfies its kind's schema constraints: equipment
\* armor.dex and strength are a number or null and proficient is 0, 1 or
\* null; weapon properties are booleans and weaponType is a non-null
\* string; tool ability is a scalar string.  (A field the record lacks is
\* left to the schema's initial value and counts as satisfied.)
C3_MigratedSatisfiesSchema ==
    (Migrated /\ ~threw) =>
       CASE mkind = "equipment" -> EquipmentSchemaOk(source)
         [] mkind = "weapon" -> WeaponSchemaOk(source)
         [] mkind = "tool" -> ToolSchemaOk(source)

\* C4: weapon property migration deletes exactly the entries of the
\* properties map whose value is not true or false and keeps every boolean
\* entry unchanged; a record without a properties map keeps its properties
\* field as it was.
C4_PropertiesStripped ==
    (mkind = "weapon" /\ Migrated) =>
       LET before == hist[1].properties
           after == hist[2].properties
       IN IF before.t = "object"
          THEN /\ after.t = "object"
               /\ \A k \in PropKeys :
                    IF before.v[k] \in {Bool(TRUE), Bool(FALSE)}
                    THEN after.v[k] = before.v[k]
                    ELSE after.v[k] = Absent
          ELSE after = before

C4_Witness ==
    /\ mkind = "weapon" /\ Migrated
    /\ hist[1].properties = Obj([fin |-> Bool(TRUE), old |-> Str("legacy")])
    /\ source.properties = Obj([fin |-> Bool(TRUE), old |-> Absent])

(***************************************************************************)
(* Properties of the proficiency multiplier (SpecProf).                    *)
(***************************************************************************)
OwnedBy(type) == actor # NoActor /\ actor.type = type

\* C5: a finite proficient value of a weapon, equipment or tool item is
\* returned unchanged, whatever the owning actor is.
C5_OverrideWins ==
    (pkind \in {"weapon", "equipment", "tool"} /\ mult # NotRead
       /\ IsFinite(item.proficient)) => mult = item.proficient

C5_Witness ==
    /\ pkind = "weapon" /\ item.proficient = Whole(0)
    /\ OwnedBy("npc") /\ mult = Whole(0)

\* C6: without a finite override, every kind's multiplier is 0 for an
\* unowned item and 1 for an item owned by an npc.
C6_UnownedZeroNpcOne ==
    (pkind \in Kinds /\ mult # NotRead /\ ~IsFinite(item.proficient)) =>
       /\ actor = NoActor => mult = Whole(0)
       /\ OwnedBy("npc") => mult = Whole(1)

\* C7: for a weapon of a player character without a finite override, a
\* natural weapon has multiplier 1 and an improvised weapon has multiplier 1
\* exactly when the character has the tavern brawler flag.
C7_NaturalAndImprovised ==
    (pkind = "weapon" /\ mult # NotRead /\ ~IsFinite(item.proficient)
       /\ OwnedBy("character")) =>
       /\ item.weaponType = "natural" => mult = Whole(1)
       /\ item.weaponType = "improv" =>
            (mult = Whole(1) <=> Truthy(actor.tavernBrawlerFeat))
       /\ (item.weaponType = "improv" /\ ~Truthy(actor.tavernBrawlerFeat)) =>
            mult = Whole(0)

C9_NoPlaceholders ==
    props # NotRead =>
       \A i \in 1 .. Len(props.v) : IsString(props.v[i]) /\ props.v[i].v # ""

(***************************************************************************)
(* Properties of _prepareItems (SpecPrepare).                              *)
(***************************************************************************)
FeatureBuckets == {"background", "classes", "active", "passive"}
BucketNames == InventoryTypes \cup {"spellbook"} \cup FeatureBuckets

Bucket(v, b) ==
    CASE b \in InventoryTypes -> v.inventory[b]
      [] b = "spellbook" -> v.spellbook[0] \o v.spellbook[1]
      [] b \in FeatureBuckets -> v.features[b]

Count(seq, id) == Cardinality({i \in 1 .. Len(seq) : seq[i].id = id})

AllListed(v) ==
    v.inventory["weapon"] \o v.inventory["equipment"]
      \o v.inventory["consumable"] \o v.inventory["tool"]
      \o v.inventory["backpack"] \o v.inventory["loot"]
      \o Bucket(v, "spellbook")
      \o v.features.background \o v.features.classes
      \o v.features.active \o v.features.passive

BucketsOf(v, id) == {b \in BucketNames : Count(Bucket(v, b), id) > 0}

AllowedBuckets(it) ==
    CASE it.type \in InventoryTypes -> {it.type}
      [] it.type = "spell" -> {"spellbook"}
      [] it.type = "feat" -> {"active", "passive"}
      [] it.type = "background" -> {"background"}
      [] it.type = "class" -> {"classes"}
      [] it.type = "subclass" -> {"classes", "active", "passive"}
      [] OTHER -> {}

\* C10: after _prepareItems every input item is listed at most once in all
\* of the view's buckets together, and only in a bucket of its kind:
\* inventory kinds in their own inventory section, spells in the spellbook,
\* feats in active or passive, backgrounds in background, classes in
\* classes, subclasses in classes or a feature bucket, other kinds nowhere.
C10_Partition ==
    view # NotRead =>
       \A i \in 1 .. Len(ctxItems) :
          /\ Count(AllListed(view), ctxItems[i].id) <= 1
          /\ BucketsOf(view, ctxItems[i].id) \subseteq AllowedBuckets(ctxItems[i])

C10_Witness ==
    /\ view # NotRead
    /\ Len(ctxItems) = 3
    /\ ctxItems[1].type = "subclass" /\ ctxItems[2].type = "class"
    /\ ctxItems[3].type = "race"
    /\ BucketsOf(view, 1) = {"classes"} /\ BucketsOf(view, 2) = {"classes"}
    /\ BucketsOf(view, 3) = {}
    /\ Len(AllListed(view)) = 2

(***************************************************************************)
(* Properties of the classes bucket and the level options (SpecClasses).   *)
(***************************************************************************)
Positions(seq, id) == {p \in 1 .. Len(seq) : seq[p].id = id}

\* the subclasses no class took: those the classes bucket does not list
Unmatched(v) ==
    SelectSeq(OfType(ctxItems, "subclass"),
              LAMBDA s : Positions(v.features.classes, s.id) = {})

ClassesDescending(cb) ==
    /\ \A c \in 1 .. Len(ctxItems) : ctxItems[c].type = "class" =>
          Cardinality(Positions(cb, ctxItems[c].id)) = 1
    /\ \A p, q \in 1 .. Len(cb) :
          (p < q /\ cb[p].type = "class" /\ cb[q].type = "class") =>
             cb[p].levels >= cb[q].levels

\* a subclass in the classes bucket sits right behind a class of its
\* classIdentifier, and every earlier subclass of that classIdentifier sits
\* further up the bucket
SubclassFollowsItsClass(cb) ==
    \A p \in 1 .. Len(cb) : cb[p].type = "subclass" =>
       /\ p > 1 /\ cb[p - 1].type = "class"
       /\ cb[p].classIdentifier = ClassIdentifier(cb[p - 1])
       /\ \A i \in 1 .. Len(ctxItems) :
             (/\ ctxItems[i].type = "subclass" /\ i < cb[p].id
              /\ ctxItems[i].classIdentifier = cb[p].classIdentifier) =>
                \E q \in Positions(cb, i) : q < p

\* a class with no subclass behind it left no subclass of its identifier
ClassAloneHasNone(v) ==
    LET cb == v.features.classes
        left == Unmatched(v)
    IN \A p \in 1 .. Len(cb) :
          (cb[p].type = "class" /\ (p = Len(cb) \/ cb[p + 1].type = "class")) =>
             \A u \in 1 .. Len(left) :
                left[u].classIdentifier # ClassIdentifier(cb[p])

UnmatchedWarned(v) ==
    LET left == Unmatched(v)
    IN /\ Len(v.warnings) = Len(left)
       /\ \A u \in 1 .. Len(left) :
             /\ Count(v.features.passive, left[u].id) = 1
             /\ Count(v.features.active, left[u].id) = 0
             /\ Cardinality({w \in 1 .. Len(v.warnings) :
                    v.warnings[w] = [name |-> left[u].name,
                                     class |-> left[u].classIdentifier]})
                  = Cardinality({x \in 1 .. Len(left) :
                       /\ left[x].name = left[u].name
                       /\ left[x].classIdentifier = left[u].classIdentifier})

\* C11: the classes bucket lists the class items by descending level; a
\* class is followed at once by the first subclass not yet matched whose
\* classIdentifier is the class's identifier (its explicit identifier, else
\* its slugified name) and by no other subclass; every subclass left over
\* is listed in the passive feature bucket and has exactly one warning that
\* names its classIdentifier.
C11_ClassesPaired ==
    view # NotRead =>
       /\ ClassesDescending(view.features.classes)
       /\ SubclassFollowsItsClass(view.features.classes)
       /\ ClassAloneHasNone(view)
       /\ UnmatchedWarned(view)

Ids(seq) == [p \in 1 .. Len(seq) |-> seq[p].id]

\* Wizard 3, Thief (rogue), Fighter 5, Champion (fighter)
C11_Witness ==
    /\ view # NotRead
    /\ Len(ctxItems) = 4
    /\ ctxItems[1].name = "Wizard" /\ ctxItems[1].levels = 3
    /\ ctxItems[2].name = "Thief"
    /\ ctxItems[3].name = "Fighter" /\ ctxItems[3].levels = 5
    /\ ctxItems[4].name = "Champion"
    /\ Ids(view.features.classes) = <<3, 4, 1>>
    /\ Ids(view.features.passive) = <<2>>
    /\ view.warnings = <<[name |-> "Thief", class |-> "rogue"]>>

\* C12: a class's level options are the levels 1 .. maxLevel, each with
\* delta = level - the class's levels, and an option is disabled exactly
\* when its delta exceeds maxLevel - the character's total level.
C12_LevelOptions ==
    view # NotRead =>
       \A c \in 1 .. Len(ctxItems) : ctxItems[c].type = "class" =>
          LET opts == view.availableLevels[ctxItems[c].id]
          IN /\ DOMAIN opts = 1 .. MaxLevel
             /\ \A l \in 1 .. MaxLevel :
                   /\ opts[l].level = l
                   /\ opts[l].delta = l - ctxItems[c].levels
                   /\ opts[l].disabled <=>
                        opts[l].delta > MaxLevel - SumLevels(ctxItems)

\* maxLevel 20, total level 15, a class at level 3: delta > 5 is disabled
C12_Witness ==
    /\ view # NotRead
    /\ MaxLevel = 20 /\ SumLevels(ctxItems) = 15
    /\ Len(ctxItems) = 2 /\ ctxItems[1].levels = 3
    /\ {l \in 1 .. MaxLevel : view.availableLevels[1][l].disabled} = 9 .. 20
    /\ view.availableLevels[1][8].delta = 5

(***************************************************************************)
(* Properties of rendering (SpecRender).                                   *)
(***************************************************************************)
\* the resources an item is linked to that the sheet shows
LinkedShown == DOMAIN ResourceOverrides(ctxItems) \cap BuiltIn

LinkedItemOf(r) == ItemById(ctxItems, ResourceOverrides(ctxItems)[r])

ResourceLocked(r) ==
    /\ \A f \in ResourceInputs \ {"value"} : <<r, f>> \in dom.disabled
    /\ <<r, "value">> \notin dom.disabled
    /\ \A part \in {"sep", "max"} :
          <<r, part>> \in dom.removed <=> ~LinkedItemOf(r).hasLimitedUses

C14_GetDataLeavesRecords ==
    (result # NotRead /\ result.op = "getData") =>
       /\ ctxItems = result.before.items
       /\ DOMAIN resources = DOMAIN result.before.resources
       /\ \A id \in DOMAIN resources :
             /\ resources[id].value = result.before.resources[id].value
             /\ resources[id].max = result.before.resources[id].max

\* C19: no built-in resource is ever removed, and once activateListeners
\* has run every resource whose id is not built-in has its remove control,
\* so that a click removes it.
C19_UserCreatedRemovable ==
    (dom # NotRead /\ result.op = "activateListeners") =>
       /\ \A r \in BuiltIn \cap DOMAIN result.before.resources :
             r \in DOMAIN resources
       /\ \A id \in DOMAIN resources \ BuiltIn : id \in dom.removeControls

(***************************************************************************)
(* Properties of drops and level changes (SpecLevels, SpecConfirm,         *)
(* SpecRace).                                                              *)
(***************************************************************************)
\* C15: the class levels of the character add up to no more than maxLevel
\* after any sequence of class drops, on a new or an owned class, and of
\* level changes that each take an option not disabled on a sheet rendered
\* from the actor as it then is.
C15_TotalWithinMax == SumLevels(ctxItems) <= MaxLevel

\* Fighter and Wizard dropped at level 1, then the Wizard raised by its
\* highest option that is not disabled
C15_Witness ==
    /\ result # NotRead /\ result.op = "levelChange"
    /\ result.returned = "update"
    /\ Len(ctxItems) = 2
    /\ ctxItems[1].name = "Fighter" /\ ctxItems[1].levels = 1
    /\ ctxItems[2].name = "Wizard" /\ ctxItems[2].levels = MaxLevel - 1

\* C16: whatever subclasses and classes were dropped, in whatever order,
\* no two subclass items of the character have the same classIdentifier.
C16_OneSubclassPerClass ==
    \A i, j \in 1 .. Len(ctxItems) :
       (/\ i < j
        /\ ctxItems[i].type = "subclass" /\ ctxItems[j].type = "subclass") =>
          ctxItems[i].classIdentifier # ctxItems[j].classIdentifier

\* the drops the rules forbid: a class on a character at maxLevel, a
\* subclass whose system.identifier is the identifier of an owned subclass,
\* a subclass of an owned class that has a subclass already
RuleViolating(items, itemData) ==
    \/ itemData.type = "class" /\ SumLevels(items) >= MaxLevel
    \/ /\ itemData.type = "subclass"
       /\ \E i \in 1 .. Len(items) :
             items[i].type = "subclass"
               /\ Identifier(items[i]) = itemData.identifier
    \/ /\ itemData.type = "subclass"
       /\ \E i \in 1 .. Len(items) :
             /\ items[i].type = "class"
             /\ Identifier(items[i]) = itemData.classIdentifier
             /\ \E j \in 1 .. Len(items) :
                   items[j].type = "subclass"
                     /\ items[j].classIdentifier = Identifier(items[i])

C18_CancelIsNoOp ==
    [][(\/ /\ Cardinality(pending') < Cardinality(pending)
           /\ result'.input = "closed"
        \/ /\ handled' # handled
           /\ result'.op = "convertCurrency"
           /\ result'.input \in {"no", "closed"}) =>
          /\ result'.returned # "update"
          /\ ctxItems' = ctxItems
          /\ currency' = currency /\ resources' = resources]_vars

\* a level-down of the Fighter proposed, then its confirmation closed
C18_Witness ==
    /\ result # NotRead /\ result.op = "levelDown"
    /\ result.input = "closed" /\ result.returned = "return"
    /\ pending = {}
    /\ ctxItems = TwoClasses

\* the class levels are those of a character: each within 1 .. maxLevel,
\* and no more than maxLevel together
InRange(items) ==
    /\ SumLevels(items) <= MaxLevel
    /\ \A i \in 1 .. Len(items) :
          items[i].type = "class" => items[i].levels \in 1 .. MaxLevel

\* C20: however _onLevelChange handlers interleave, each with the delta of
\* an option that was not disabled on the html its event came from, every
\* class level stays within 1 .. maxLevel and the levels add up to no more
\* than maxLevel.
C20_LevelsStayInRange == InRange(ctxItems)

=============================================================================
